---- MODULE Spec2Model ----
(***************************************************************************)
(* ClarityQL structured-query pipeline: the schema registry, the QueryAST  *)
(* value type, the conversational merge engine (ast_merge.py), the AST     *)
(* validator (validator.py), the join resolver (join_resolver.py) and the  *)
(* SQL compiler (compiler.py).                                             *)
(*                                                                         *)
(* Four specifications share the module:                                   *)
(*   SpecMerge  a previous AST and a delta AST are merged by merge_ast;    *)
(*   SpecQuery  one parsed AST is validated, resolved and compiled;        *)
(*   SpecCalls  one helper of the validator or the compiler is called on   *)
(*              arguments the default registry alone does not produce      *)
(*              (every field type, every limit, every join kind);          *)
(*   SpecPipeline  two requests on one conversation run through            *)
(*              NLQService.process_query, from loading the stored AST to   *)
(*              saving the new one.                                        *)
(***************************************************************************)
EXTENDS Integers, Sequences, FiniteSets, TLC

VARIABLES
    previous,   \* merge: the AST of the previous query
    delta,      \* merge: the AST parsed from the follow-up
    merged,     \* merge: what merge_ast returned (or NotRun)
    pc,         \* merge: "parsed" before the call, "merged" after it
    ast,        \* query: the AST handed to validate / resolve / compile
    verdict,    \* query: what ASTValidator.validate did (or NotRun)
    plan,       \* query: what JoinResolver.resolve did (or NotRun)
    stmt,       \* query: what SQLCompiler.compile did (or NotRun)
    call,       \* calls: the helper called and its arguments
    result,     \* calls: what the helper did (or NotRun)
    stored,     \* pipeline: the values ConversationState.ast_json has had,
                \*           oldest first; the last one is the stored AST
    requests    \* pipeline: each request's position and local variables

vars ==
    <<previous, delta, merged, pc, ast, verdict, plan, stmt, call, result,
      stored, requests>>

mergeVars == <<previous, delta, merged, pc>>
queryVars == <<ast, verdict, plan, stmt>>
callVars == <<call, result>>
pipelineVars == <<stored, requests>>

(***************************************************************************)
(* Bounds of the model.                                                    *)
(***************************************************************************)
\* Nodes (metrics + dimensions + filters + order-bys) of the previous and the
\* delta AST together, in SpecMerge.
MaxMergeNodes == 4
\* Nodes of the one AST of SpecQuery.
MaxQueryNodes == 3
\* Dimensions of an AST whose visualization is inferred, in SpecCalls.
MaxVizDimensions == 3
\* Nodes of a delta tested for emptiness, in SpecCalls.
MaxDeltaNodes == 2
\* Concurrent requests on the conversation of SpecPipeline.
MaxRequests == 2
\* Calls of reset_conversation in SpecPipeline.
MaxResets == 1

(***************************************************************************)
(* Generic helpers.                                                        *)
(***************************************************************************)
None == "<None>"

NotRun == [kind |-> "not_run"]

Range(s) == {s[i] : i \in DOMAIN s}

SeqsOfLen(S, n) == [1..n -> S]

SeqsUpTo(S, n) == UNION {SeqsOfLen(S, k) : k \in 0..n}

NonEmptySeqsUpTo(S, n) == UNION {SeqsOfLen(S, k) : k \in 1..n}

Distinct(s) == \A i, j \in DOMAIN s : i # j => s[i] # s[j]

FieldsOf(s) == {s[i].field : i \in DOMAIN s}

FieldSeq(s) == [i \in DOMAIN s |-> s[i].field]

(***************************************************************************)
(* models.py: the AST node types.                                          *)
(***************************************************************************)
DEFAULT_LIMIT == 50
MIN_LIMIT == 1
MAX_LIMIT == 1000

Metric(function, field, alias) ==
    [function |-> function, field |-> field, alias |-> alias]

Dimension(field, alias) == [field |-> field, alias |-> alias]

\* A filter value is a Python object; the model keeps its type and its items:
\* the characters of a str, the digits of an int, the elements of a list or a
\* tuple.
StrValue(chars) == [type |-> "str", items |-> chars]
IntValue(digits) == [type |-> "int", items |-> <<digits>>]
ListValue(vs) == [type |-> "list", items |-> vs]
TupleValue(vs) == [type |-> "tuple", items |-> vs]
NoneValue == [type |-> "none", items |-> <<>>]

Filter(field, operator, value) ==
    [field |-> field, operator |-> operator, value |-> value]

OrderBy(field, direction) == [field |-> field, direction |-> direction]

\* QueryAST(...): the pydantic constructor.  It rejects an empty metric list
\* (at_least_one_metric) and a limit outside [1, 1000] (ge=1, le=1000).
QueryAST(metrics, dimensions, filters, order_by, limit) ==
    IF metrics = <<>> \/ limit < MIN_LIMIT \/ limit > MAX_LIMIT
    THEN [kind |-> "error", error |-> "ValidationError"]
    ELSE [kind |-> "ast",
          metrics |-> metrics, dimensions |-> dimensions,
          filters |-> filters, order_by |-> order_by, limit |-> limit]

Size(a) ==
    Len(a.metrics) + Len(a.dimensions) + Len(a.filters) + Len(a.order_by)

(***************************************************************************)
(* ast_merge.py                                                            *)
(***************************************************************************)
MetricKeys(ms) == {<<ms[i].function, ms[i].field>> : i \in DOMAIN ms}

\* Mutant: only the delta metrics that are new to the previous list are kept.
_merge_metrics_only_new(prev, dlt) ==
    SelectSeq(dlt, LAMBDA m : <<m.function, m.field>> \notin MetricKeys(prev))

_merge_metrics(prev, dlt) ==
    IF Len(dlt) > 0 /\ MetricKeys(dlt) # MetricKeys(prev)
    THEN dlt
    ELSE prev

\* The loop of _merge_dimensions from delta[i] on: merged_ is the list built
\* so far, existing_fields the fields already in it.
RECURSIVE _merge_dimensions_loop(_, _, _, _)
_merge_dimensions_loop(dlt, i, merged_, existing_fields) ==
    IF i > Len(dlt) THEN merged_
    ELSE IF dlt[i].field \notin existing_fields
         THEN _merge_dimensions_loop(dlt, i + 1, Append(merged_, dlt[i]),
                                     existing_fields \cup {dlt[i].field})
         ELSE _merge_dimensions_loop(dlt, i + 1, merged_, existing_fields)

\* Mutant: the delta dimensions are appended without de-duplication.
_merge_dimensions_concat(prev, dlt) == prev \o dlt

_merge_dimensions(prev, dlt) ==
    IF dlt = <<>> THEN prev
    ELSE _merge_dimensions_loop(dlt, 1, prev, FieldsOf(prev))

\* A Python dict keyed by field, as the sequence of its values in insertion
\* order: assigning to a key that is present replaces its value in place,
\* assigning to a new key appends.
\* Mutant: the entry is appended even when its key is present.
DictSet_append(d, f) == Append(d, f)

DictSet(d, f) ==
    IF f.field \in FieldsOf(d)
    THEN [i \in DOMAIN d |-> IF d[i].field = f.field THEN f ELSE d[i]]
    ELSE Append(d, f)

RECURSIVE DictSetAll(_, _, _)
DictSetAll(d, fs, i) ==
    IF i > Len(fs) THEN d ELSE DictSetAll(DictSet(d, fs[i]), fs, i + 1)

\* Mutant: a delta with filters replaces the filters of the previous query.
_merge_filters_delta_replaces(prev, dlt) == IF dlt = <<>> THEN prev ELSE dlt

_merge_filters(prev, dlt) ==
    IF dlt = <<>> THEN prev
    ELSE DictSetAll(DictSetAll(<<>>, prev, 1), dlt, 1)

_merge_order_by(prev, dlt) == IF dlt # <<>> THEN dlt ELSE prev

\* Mutant: the delta limit always wins.
_merge_limit_always_delta(prev, dlt) == dlt

\* Mutant: the limits of the two queries add up.
_merge_limit_sum(prev, dlt) == prev + dlt

_merge_limit(prev, dlt) == IF dlt # DEFAULT_LIMIT THEN dlt ELSE prev

merge_ast(prev, dlt) ==
    LET r == QueryAST(_merge_metrics(prev.metrics, dlt.metrics),
                      _merge_dimensions(prev.dimensions, dlt.dimensions),
                      _merge_filters(prev.filters, dlt.filters),
                      _merge_order_by(prev.order_by, dlt.order_by),
                      _merge_limit(prev.limit, dlt.limit))
    IN  IF r.kind = "error"
        THEN [kind |-> "error", error |-> "ASTMergeError"]
        ELSE r

\* Mutant: a custom limit does not count as content.
is_delta_empty_ignoring_limit(dlt) ==
    ~(Len(dlt.dimensions) > 0 \/ Len(dlt.filters) > 0 \/ Len(dlt.order_by) > 0)

is_delta_empty(dlt) ==
    LET has_dimensions == Len(dlt.dimensions) > 0
        has_filters == Len(dlt.filters) > 0
        has_order == Len(dlt.order_by) > 0
        has_custom_limit == dlt.limit # 50
    IN  ~(has_dimensions \/ has_filters \/ has_order \/ has_custom_limit)

(***************************************************************************)
(* The ASTs of SpecMerge.                                                  *)
(***************************************************************************)
MergeMetrics ==
    { Metric("sum", "quantity", None),
      Metric("sum", "quantity", "total"),
      Metric("avg", "unit_price", None) }

MergeDimensions ==
    { Dimension("region", None),
      Dimension("region", "area"),
      Dimension("product_line", None) }

MergeFilters ==
    { Filter("region", "=", StrValue(<<"A", "P", "A", "C">>)),
      Filter("region", "=", StrValue(<<"E", "M", "E", "A">>)),
      Filter("category", "=", StrValue(<<"T", "V">>)) }

MergeOrderBys ==
    { OrderBy("quantity", "desc"), OrderBy("region", "asc") }

MergeLimits == {MIN_LIMIT, DEFAULT_LIMIT, MAX_LIMIT}

\* The well-formed ASTs over the given node sets with at most n nodes.
ASTsUpTo(n, Ms, Ds, Fs, Os, Ls) ==
    UNION { UNION { UNION {
        { QueryAST(m, d, f, o, l) :
            o \in SeqsUpTo(Os, n - Len(m) - Len(d) - Len(f)), l \in Ls }
        : f \in SeqsUpTo(Fs, n - Len(m) - Len(d)) }
        : d \in SeqsUpTo(Ds, n - Len(m)) }
        : m \in NonEmptySeqsUpTo(Ms, n) }

\* The ASTs of SpecMerge with at most n nodes.
MergeASTs(n) ==
    ASTsUpTo(n, MergeMetrics, MergeDimensions, MergeFilters, MergeOrderBys,
             MergeLimits)

(***************************************************************************)
(* SpecMerge                                                               *)
(***************************************************************************)
InitMerge ==
    /\ previous \in MergeASTs(MaxMergeNodes - 1)
    \* the follow-up parses to a delta within the node budget, or repeats the
    \* previous query
    /\ delta \in MergeASTs(MaxMergeNodes - Size(previous)) \cup {previous}
    /\ merged = NotRun
    /\ pc = "parsed"
    /\ ast = NotRun
    /\ verdict = NotRun
    /\ plan = NotRun
    /\ stmt = NotRun
    /\ call = NotRun
    /\ result = NotRun
    /\ stored = NotRun
    /\ requests = NotRun

\* final_ast = merge_ast(previous_ast, parsed_ast)
Merge ==
    /\ pc = "parsed"
    /\ merged' = merge_ast(previous, delta)
    /\ pc' = "merged"
    /\ UNCHANGED <<previous, delta>>
    /\ UNCHANGED queryVars
    /\ UNCHANGED callVars
    /\ UNCHANGED pipelineVars

NextMerge == Merge

SpecMerge == InitMerge /\ [][NextMerge]_vars

(***************************************************************************)
(* registry.py: the default schema registry.                               *)
(***************************************************************************)
FieldMeta(table, column, field_type, aggregatable, date_trunc) ==
    [table |-> table, column |-> column, field_type |-> field_type,
     aggregatable |-> aggregatable, date_trunc |-> date_trunc]

JoinMeta(left_table, right_table, left_key, right_key, join_type) ==
    [left_table |-> left_table, right_table |-> right_table,
     left_key |-> left_key, right_key |-> right_key, join_type |-> join_type]

\* _DEFAULT_TABLES, flattened into SchemaRegistry._field_index.
_field_index ==
    ("order_date" :> FieldMeta("orders", "order_date", "date", FALSE, None))
 @@ ("order_month" :> FieldMeta("orders", "order_date", "date", FALSE, "month"))
 @@ ("quantity" :> FieldMeta("orders", "quantity", "numeric", TRUE, None))
 @@ ("unit_price" :> FieldMeta("orders", "unit_price", "numeric", TRUE, None))
 @@ ("region" :> FieldMeta("orders", "region", "string", FALSE, None))
 @@ ("product_line" :>
        FieldMeta("products", "product_line", "string", FALSE, None))
 @@ ("category" :> FieldMeta("products", "category", "string", FALSE, None))
 @@ ("segment" :> FieldMeta("customers", "segment", "string", FALSE, None))
 @@ ("country" :> FieldMeta("customers", "country", "string", FALSE, None))

_DEFAULT_JOINS ==
    << JoinMeta("orders", "products", "product_id", "product_id", "left"),
       JoinMeta("orders", "customers", "customer_id", "customer_id", "left") >>

\* A derived metric's expression, as the pieces of its string: operands and
\* the blank-padded operators between them.
_derived_metrics ==
    "revenue" :> [name |-> "revenue", base_table |-> "orders",
                  expression |-> <<"quantity", " * ", "unit_price">>]

\* get_field(name) is not None
has_field(field_name) == field_name \in DOMAIN _field_index

get_field(field_name) == _field_index[field_name]

get_field_table(field_name) == _field_index[field_name].table

\* get_derived_metric(name) is not None
is_derived_metric(metric_name) == metric_name \in DOMAIN _derived_metrics

get_derived_metric(metric_name) == _derived_metrics[metric_name]

field_exists(field_name) ==
    field_name \in DOMAIN _field_index \/ field_name \in DOMAIN _derived_metrics

\* _join_graph[table_a][table_b]: the constructor stores every join under
\* both directions, a later join replacing an earlier one on the same pair.
JoinIndices(table_a, table_b) ==
    { i \in DOMAIN _DEFAULT_JOINS :
        \/ /\ _DEFAULT_JOINS[i].left_table = table_a
           /\ _DEFAULT_JOINS[i].right_table = table_b
        \/ /\ _DEFAULT_JOINS[i].left_table = table_b
           /\ _DEFAULT_JOINS[i].right_table = table_a }

\* get_join(a, b) is not None
has_join(table_a, table_b) == JoinIndices(table_a, table_b) # {}

get_join(table_a, table_b) ==
    _DEFAULT_JOINS[CHOOSE i \in JoinIndices(table_a, table_b) :
                      \A j \in JoinIndices(table_a, table_b) : j <= i]

(***************************************************************************)
(* validator.py                                                            *)
(***************************************************************************)
ALLOWED_OPERATORS ==
    ("string" :> {"=", "!=", "in", "not_in", "like", "is_null", "is_not_null"})
 @@ ("numeric" :> {"=", "!=", ">", ">=", "<", "<=", "between", "in", "not_in",
                   "is_null", "is_not_null"})
 @@ ("date" :> {"=", "!=", ">", ">=", "<", "<=", "between", "is_null",
                "is_not_null"})
 @@ ("timestamp" :> {"=", "!=", ">", ">=", "<", "<=", "between", "is_null",
                     "is_not_null"})
 @@ ("boolean" :> {"=", "!=", "is_null", "is_not_null"})

Ok == [kind |-> "ok"]

ASTValidationError(reason) ==
    [kind |-> "error", error |-> "ASTValidationError", reason |-> reason]

\* What a loop that raises at the first failing element does: the first
\* result of rs that is not Ok, or Ok.
RECURSIVE FirstFailure(_, _)
FirstFailure(rs, i) ==
    IF i > Len(rs) THEN Ok
    ELSE IF rs[i] # Ok THEN rs[i] ELSE FirstFailure(rs, i + 1)

\* Mutant: a metric field only has to exist.
_validate_metric_exists_only(metric) ==
    IF ~field_exists(metric.field)
    THEN ASTValidationError("unknown_metric_field")
    ELSE Ok

\* One iteration of the loop of _validate_metrics.
_validate_metric(metric) ==
    IF ~field_exists(metric.field)
    THEN ASTValidationError("unknown_metric_field")
    ELSE IF is_derived_metric(metric.field) THEN Ok
    ELSE IF has_field(metric.field) /\ ~get_field(metric.field).aggregatable
    THEN ASTValidationError("not_aggregatable")
    ELSE Ok

_validate_metrics(metrics) ==
    FirstFailure([i \in DOMAIN metrics |-> _validate_metric(metrics[i])], 1)

\* Mutant: the dimensions are not checked.
_validate_dimensions_unchecked(dimensions) == Ok

_validate_dimensions(dimensions) ==
    FirstFailure([i \in DOMAIN dimensions |->
                     IF ~field_exists(dimensions[i].field)
                     THEN ASTValidationError("unknown_dimension_field")
                     ELSE Ok], 1)

\* Mutant: every field is checked against the operators of a string.
_validate_operator_as_string(f, field_meta) ==
    IF f.operator \notin ALLOWED_OPERATORS["string"]
    THEN ASTValidationError("operator_not_allowed")
    ELSE Ok

_validate_operator(f, field_meta) ==
    IF f.operator \notin ALLOWED_OPERATORS[field_meta.field_type]
    THEN ASTValidationError("operator_not_allowed")
    ELSE Ok

\* isinstance(value, (list, tuple))
IsListOrTuple(value) == value.type \in {"list", "tuple"}

_validate_filter_value(f, field_meta) ==
    IF f.operator = "between"
       /\ (~IsListOrTuple(f.value) \/ Len(f.value.items) # 2)
    THEN ASTValidationError("between_needs_two_values")
    ELSE IF f.operator \in {"in", "not_in"} /\ ~IsListOrTuple(f.value)
    THEN ASTValidationError("in_needs_list")
    ELSE Ok

\* The two checks _validate_filters makes on a filter of a physical field,
\* in its order: the operator, then the shape of the value.
_validate_filter_checks(f, field_meta) ==
    FirstFailure(<< _validate_operator(f, field_meta),
                    _validate_filter_value(f, field_meta) >>, 1)

\* One iteration of the loop of _validate_filters.
_validate_filter(f) ==
    IF ~field_exists(f.field)
    THEN ASTValidationError("unknown_filter_field")
    ELSE IF ~has_field(f.field) THEN Ok
    ELSE _validate_filter_checks(f, get_field(f.field))

_validate_filters(filters) ==
    FirstFailure([i \in DOMAIN filters |-> _validate_filter(filters[i])], 1)

\* The names _validate_order_by accepts: metric and dimension fields, and
\* their aliases when set.
valid_fields(a) ==
    (FieldsOf(a.metrics) \cup FieldsOf(a.dimensions))
    \cup ({a.metrics[i].alias : i \in DOMAIN a.metrics} \ {None, ""})
    \cup ({a.dimensions[i].alias : i \in DOMAIN a.dimensions} \ {None, ""})

\* Mutant: an order-by field only has to be registered.
_validate_order_by_registered(a) ==
    FirstFailure([i \in DOMAIN a.order_by |->
                     IF ~field_exists(a.order_by[i].field)
                     THEN ASTValidationError("order_by_not_selected")
                     ELSE Ok], 1)

_validate_order_by(a) ==
    FirstFailure([i \in DOMAIN a.order_by |->
                     IF a.order_by[i].field \notin valid_fields(a)
                     THEN ASTValidationError("order_by_not_selected")
                     ELSE Ok], 1)

\* Mutant: the upper bound is exclusive.
_validate_limit_exclusive(limit) ==
    IF limit >= 1000 THEN ASTValidationError("limit_too_large")
    ELSE IF limit < 1 THEN ASTValidationError("limit_too_small")
    ELSE Ok

_validate_limit(limit) ==
    IF limit > 1000 THEN ASTValidationError("limit_too_large")
    ELSE IF limit < 1 THEN ASTValidationError("limit_too_small")
    ELSE Ok

\* Mutant: the filters are checked before the metrics and the dimensions.
validate_filters_first(a) ==
    FirstFailure(<< _validate_filters(a.filters),
                    _validate_metrics(a.metrics),
                    _validate_dimensions(a.dimensions),
                    _validate_order_by(a),
                    _validate_limit(a.limit) >>, 1)

validate(a) ==
    FirstFailure(<< _validate_metrics(a.metrics),
                    _validate_dimensions(a.dimensions),
                    _validate_filters(a.filters),
                    _validate_order_by(a),
                    _validate_limit(a.limit) >>, 1)

(***************************************************************************)
(* join_resolver.py                                                        *)
(***************************************************************************)
JoinStep(left_table, right_table, left_key, right_key, join_type) ==
    [left_table |-> left_table, right_table |-> right_table,
     left_key |-> left_key, right_key |-> right_key, join_type |-> join_type]

JoinResolutionError(reason) ==
    [kind |-> "error", error |-> "JoinResolutionError", reason |-> reason]

\* _field_to_table(name) returns (does not raise)
field_has_table(field_name) ==
    is_derived_metric(field_name) \/ has_field(field_name)

_field_to_table(field_name) ==
    IF is_derived_metric(field_name)
    THEN get_derived_metric(field_name).base_table
    ELSE get_field_table(field_name)

\* The fields _collect_required_tables looks up, in its order.
RequiredFields(a) ==
    FieldSeq(a.metrics) \o FieldSeq(a.dimensions) \o FieldSeq(a.filters)

_collect_required_tables(a) ==
    {_field_to_table(f) : f \in Range(RequiredFields(a))}

\* Mutant: the base table is the table of the last metric.
_determine_base_table_last(a) ==
    _field_to_table(a.metrics[Len(a.metrics)].field)

_determine_base_table(a) == _field_to_table(a.metrics[1].field)

\* Mutant: the step is emitted as the registry declared the edge.
_find_join_as_declared(base_table, target_table) ==
    LET join_meta == get_join(base_table, target_table)
    IN  JoinStep(join_meta.left_table, join_meta.right_table,
                 join_meta.left_key, join_meta.right_key, join_meta.join_type)

_find_join(base_table, target_table) ==
    LET join_meta == get_join(base_table, target_table)
    IN  IF join_meta.left_table = base_table
        THEN JoinStep(join_meta.left_table, join_meta.right_table,
                      join_meta.left_key, join_meta.right_key,
                      join_meta.join_type)
        ELSE JoinStep(join_meta.right_table, join_meta.left_table,
                      join_meta.right_key, join_meta.left_key,
                      join_meta.join_type)

\* Mutant: a table with no direct join to the base table is left out of the
\* plan.
resolve_loop_skip_unjoined(base_table, tables, i, joins) ==
    LET rest == SelectSeq(SubSeq(tables, i, Len(tables)),
                          LAMBDA t : t # base_table /\ has_join(base_table, t))
    IN  [kind |-> "plan", base_table |-> base_table,
         joins |-> joins \o [k \in DOMAIN rest |->
                                _find_join(base_table, rest[k])]]

\* The loop of resolve over the required tables, taken in the order `tables`:
\* joins is the list built so far.
RECURSIVE resolve_loop(_, _, _, _)
resolve_loop(base_table, tables, i, joins) ==
    IF i > Len(tables)
    THEN [kind |-> "plan", base_table |-> base_table, joins |-> joins]
    ELSE IF tables[i] = base_table
    THEN resolve_loop(base_table, tables, i + 1, joins)
    ELSE IF ~has_join(base_table, tables[i])
    THEN JoinResolutionError("no_join_path")
    ELSE resolve_loop(base_table, tables, i + 1,
                      Append(joins, _find_join(base_table, tables[i])))

\* The orders in which a Python set of these tables can be iterated.
IterationOrders(S) ==
    {t \in SeqsOfLen(S, Cardinality(S)) : Range(t) = S}

\* resolve(ast), the set required_tables being iterated in the order `tables`.
resolve(a, tables) ==
    IF \E f \in Range(RequiredFields(a)) : ~field_has_table(f)
    THEN JoinResolutionError("cannot_resolve_table")
    ELSE resolve_loop(_determine_base_table(a), tables, 1, <<>>)

(***************************************************************************)
(* compiler.py: the statement is modelled as the tree of the SQLAlchemy    *)
(* constructs the compiler builds.                                         *)
(***************************************************************************)
\* The SQLAlchemy Table objects handed to the compiler: table -> columns.
sqlalchemy_tables ==
    ("orders" :> {"order_id", "customer_id", "product_id", "order_date",
                  "quantity", "unit_price", "region"})
 @@ ("products" :> {"product_id", "product_line", "category"})
 @@ ("customers" :> {"customer_id", "name", "segment", "country"})

Value(v) == [kind |-> "value", value |-> v]

SQLCompileError(reason) ==
    [kind |-> "error", error |-> "SQLCompileError", reason |-> reason]

\* An exception that is not the compiler's own (KeyError, IndexError, ...).
Uncategorized(error) == [kind |-> "error", error |-> error]

ColumnExpr(table, column) ==
    [expr |-> "column", table |-> table, column |-> column]

DateTrunc(unit, col) == [expr |-> "date_trunc", unit |-> unit, arg |-> col]

Label(name, e) == [expr |-> "label", name |-> name, arg |-> e]

\* The first error among the results rs, if any.
RECURSIVE FirstError(_, _)
FirstError(rs, i) ==
    IF i > Len(rs) THEN Ok
    ELSE IF rs[i].kind = "error" THEN rs[i] ELSE FirstError(rs, i + 1)

Values(rs) == [i \in DOMAIN rs |-> rs[i].value]

\* self._tables[table].c[column]
TableColumn(table, column) ==
    IF table \notin DOMAIN sqlalchemy_tables \/ column \notin sqlalchemy_tables[table]
    THEN Uncategorized("KeyError")
    ELSE Value(ColumnExpr(table, column))

_field_to_table_column(field_name) ==
    IF has_field(field_name)
    THEN Value(<<get_field(field_name).table, get_field(field_name).column>>)
    ELSE IF is_derived_metric(field_name)
    THEN SQLCompileError("derived_metric_as_column")
    ELSE SQLCompileError("unknown_field")

_resolve_column(field_name) ==
    LET tc == _field_to_table_column(field_name)
    IN  IF tc.kind = "error" THEN tc
        ELSE TableColumn(tc.value[1], tc.value[2])

_resolve_dimension_column(field_name) ==
    LET col == _resolve_column(field_name)
    IN  IF col.kind = "error" THEN col
        ELSE IF has_field(field_name)
                /\ get_field(field_name).date_trunc \notin {None, ""}
        THEN Value(DateTrunc(get_field(field_name).date_trunc, col.value))
        ELSE col

\* Mutant: GROUP BY takes the bare column of the dimension.
group_by_column_bare(dim) == _resolve_column(dim.field)

\* compile, step 2: the GROUP BY entry of one dimension.
group_by_column(dim) == _resolve_dimension_column(dim.field)

\* compile, step 2: the SELECT entry of one dimension.
select_column(dim) ==
    LET col == _resolve_dimension_column(dim.field)
    IN  IF col.kind = "error" THEN col
        ELSE IF dim.alias \notin {None, ""}
        THEN Value(Label(dim.alias, col.value))
        ELSE col

\* The pieces of expr between the occurrences of the operator op.
RECURSIVE Split(_, _, _, _)
Split(expr, op, i, part) ==
    IF i > Len(expr) THEN <<part>>
    ELSE IF expr[i] = op THEN <<part>> \o Split(expr, op, i + 1, <<>>)
    ELSE Split(expr, op, i + 1, Append(part, expr[i]))

\* The text of a part: an operand, or text that holds an operator.
PartText(part) == IF Len(part) = 1 THEN part[1] ELSE "<expression>"

\* table.c[name] for a table of the registry, given by its name.
ExprColumn(table, part) == TableColumn(table, PartText(part))

BinaryOps == <<" * ", " / ", " + ", " - ">>

RECURSIVE _parse_expression_from(_, _, _)
_parse_expression_from(expression, table, k) ==
    IF k > Len(BinaryOps)
    THEN IF Len(expression) = 1 /\ table \in DOMAIN sqlalchemy_tables
            /\ expression[1] \in sqlalchemy_tables[table]
         THEN Value(ColumnExpr(table, expression[1]))
         ELSE SQLCompileError("cannot_parse_expression")
    ELSE LET parts == Split(expression, BinaryOps[k], 1, <<>>)
         IN  IF BinaryOps[k] \in Range(expression) /\ Len(parts) = 2
             THEN LET left_col == ExprColumn(table, parts[1])
                      right_col == ExprColumn(table, parts[2])
                  IN  IF left_col.kind = "error" THEN left_col
                      ELSE IF right_col.kind = "error" THEN right_col
                      ELSE Value([expr |-> BinaryOps[k],
                                  left |-> left_col.value,
                                  right |-> right_col.value])
             ELSE _parse_expression_from(expression, table, k + 1)

_parse_expression(expression, table) ==
    _parse_expression_from(expression, table, 1)

AggregateFunctions == {"sum", "count", "count_distinct", "avg", "min", "max"}

_apply_aggregate(agg_func, column) ==
    IF agg_func \notin AggregateFunctions
    THEN SQLCompileError("unsupported_aggregate")
    ELSE IF agg_func = "count_distinct"
    THEN Value([expr |-> "count", arg |-> [expr |-> "distinct", arg |-> column]])
    ELSE Value([expr |-> agg_func, arg |-> column])

\* metric.alias or metric.field
AliasOrField(node) ==
    IF node.alias \notin {None, ""} THEN node.alias ELSE node.field

_resolve_derived_metric(metric, derived) ==
    IF derived.base_table \notin DOMAIN sqlalchemy_tables
    THEN Uncategorized("KeyError")
    ELSE LET e == _parse_expression(derived.expression, derived.base_table)
         IN  IF e.kind = "error" THEN e
             ELSE LET agg == _apply_aggregate(metric.function, e.value)
                  IN  IF agg.kind = "error" THEN agg
                      ELSE Value(Label(AliasOrField(metric), agg.value))

_resolve_metric(metric) ==
    IF is_derived_metric(metric.field)
    THEN _resolve_derived_metric(metric, get_derived_metric(metric.field))
    ELSE LET column == _resolve_column(metric.field)
         IN  IF column.kind = "error" THEN column
             ELSE LET agg == _apply_aggregate(metric.function, column.value)
                  IN  IF agg.kind = "error" THEN agg
                      ELSE Value(Label(AliasOrField(metric), agg.value))

FilterOperators ==
    {"=", "!=", ">", ">=", "<", "<=", "between", "in", "not_in", "like",
     "is_null", "is_not_null"}

\* value[0], value[1] of a Python object: a str is indexed by character, a
\* number or None cannot be indexed.
_apply_filter_operator(column, operator, value) ==
    IF operator \notin FilterOperators
    THEN SQLCompileError("unsupported_operator")
    ELSE IF operator = "between"
    THEN IF value.type \in {"int", "none"} THEN Uncategorized("TypeError")
         ELSE IF Len(value.items) < 2 THEN Uncategorized("IndexError")
         ELSE Value([expr |-> "between", arg |-> column,
                     low |-> value.items[1], high |-> value.items[2]])
    ELSE IF operator \in {"in", "not_in"}
    THEN \* SQLAlchemy's in_() takes a sequence that is not a str
         IF ~IsListOrTuple(value) THEN Uncategorized("ArgumentError")
         ELSE Value([expr |-> operator, arg |-> column, value |-> value])
    ELSE IF operator \in {"is_null", "is_not_null"}
    THEN Value([expr |-> operator, arg |-> column])
    ELSE Value([expr |-> operator, arg |-> column, value |-> value])

_resolve_filter(filter_) ==
    LET column ==
            IF is_derived_metric(filter_.field)
            THEN IF get_derived_metric(filter_.field).base_table
                        \notin DOMAIN sqlalchemy_tables
                 THEN Uncategorized("KeyError")
                 ELSE _parse_expression(
                          get_derived_metric(filter_.field).expression,
                          get_derived_metric(filter_.field).base_table)
            ELSE _resolve_column(filter_.field)
    IN  IF column.kind = "error" THEN column
        ELSE _apply_filter_operator(column.value, filter_.operator,
                                    filter_.value)

Ordered(col, direction) ==
    [expr |-> IF direction = "desc" THEN "desc" ELSE "asc", arg |-> col]

\* order.field names metric / dimension node
Names(node, order) == node.alias = order.field \/ node.field = order.field

_resolve_order_by(order, a) ==
    IF \E i \in DOMAIN a.metrics : Names(a.metrics[i], order)
    THEN LET metric ==
                 a.metrics[CHOOSE i \in DOMAIN a.metrics :
                     /\ Names(a.metrics[i], order)
                     /\ \A j \in 1..(i - 1) : ~Names(a.metrics[j], order)]
         IN  Value(Ordered([expr |-> "literal_column",
                            name |-> AliasOrField(metric)], order.direction))
    ELSE IF \E i \in DOMAIN a.dimensions : Names(a.dimensions[i], order)
    THEN LET dim ==
                 a.dimensions[CHOOSE i \in DOMAIN a.dimensions :
                     /\ Names(a.dimensions[i], order)
                     /\ \A j \in 1..(i - 1) : ~Names(a.dimensions[j], order)]
             col == _resolve_dimension_column(dim.field)
         IN  IF col.kind = "error" THEN col
             ELSE Value(Ordered(col.value, order.direction))
    ELSE SQLCompileError("order_by_not_found")

_apply_join(join) ==
    LET left == TableColumn(join.left_table, join.left_key)
        right == TableColumn(join.right_table, join.right_key)
    IN  IF join.left_table \notin DOMAIN sqlalchemy_tables
           \/ join.right_table \notin DOMAIN sqlalchemy_tables
        THEN Uncategorized("KeyError")
        ELSE IF left.kind = "error" THEN left
        ELSE IF right.kind = "error" THEN right
        ELSE Value([right |-> join.right_table,
                    onclause |-> <<left.value, right.value>>,
                    isouter |-> join.join_type \in {"left", "right", "full"},
                    full |-> join.join_type = "full"])

\* The per-dimension work of compile, in its order: the SELECT entry, then
\* the GROUP BY entry.
DimensionSteps(a) ==
    [k \in 1..(2 * Len(a.dimensions)) |->
        IF k % 2 = 1 THEN select_column(a.dimensions[(k + 1) \div 2])
        ELSE group_by_column(a.dimensions[k \div 2])]

compile(a, join_plan) ==
    LET base == IF join_plan.base_table \in DOMAIN sqlalchemy_tables
                THEN Value(join_plan.base_table)
                ELSE Uncategorized("KeyError")
        joins == [i \in DOMAIN join_plan.joins |-> _apply_join(join_plan.joins[i])]
        selects == [i \in DOMAIN a.dimensions |-> select_column(a.dimensions[i])]
        groups == [i \in DOMAIN a.dimensions |-> group_by_column(a.dimensions[i])]
        metrics == [i \in DOMAIN a.metrics |-> _resolve_metric(a.metrics[i])]
        wheres == [i \in DOMAIN a.filters |-> _resolve_filter(a.filters[i])]
        orders == [i \in DOMAIN a.order_by |-> _resolve_order_by(a.order_by[i], a)]
        failure == FirstError(<<base>> \o joins \o DimensionSteps(a) \o metrics
                              \o wheres \o orders, 1)
    IN  IF failure # Ok THEN failure
        ELSE [kind |-> "select",
              columns |-> Values(selects) \o Values(metrics),
              select_from |-> base.value,
              joins |-> Values(joins),
              where |-> Values(wheres),
              group_by |-> Values(groups),
              order_by |-> Values(orders),
              limit |-> a.limit]

(***************************************************************************)
(* viz_inference/infer.py: names are kept as the pieces of the string.     *)
(***************************************************************************)
\* The registry of the visualization tests: it has a timestamp field, which
\* the default registry lacks.
viz_registry ==
    ("order_date" :> FieldMeta("orders", "order_date", "date", FALSE, None))
 @@ ("region" :> FieldMeta("orders", "region", "string", FALSE, None))
 @@ ("category" :> FieldMeta("orders", "category", "string", FALSE, None))
 @@ ("quantity" :> FieldMeta("orders", "quantity", "numeric", TRUE, None))
 @@ ("revenue" :> FieldMeta("orders", "revenue", "numeric", TRUE, None))
 @@ ("created_at" :>
        FieldMeta("orders", "created_at", "timestamp", FALSE, None))

\* A str, as the pieces it is put together from; and None.
Str(pieces) == [kind |-> "str", pieces |-> pieces]

NoName == [kind |-> "none"]

VisualizationSpec(type, x, y, series) ==
    [type |-> type, x |-> x, y |-> y, series |-> series]

_is_date_field(field_name, registry) ==
    IF field_name \notin DOMAIN registry THEN FALSE
    ELSE registry[field_name].field_type \in {"date", "timestamp"}

_get_metric_name(a) ==
    IF a.metrics = <<>> THEN NoName
    ELSE IF a.metrics[1].alias \notin {None, ""} THEN Str(<<a.metrics[1].alias>>)
    ELSE Str(<<a.metrics[1].function, "_", a.metrics[1].field>>)

\* index counts from 0, as in the source.
_get_dimension_name(a, index) ==
    IF index >= Len(a.dimensions) THEN NoName
    ELSE Str(<<AliasOrField(a.dimensions[index + 1])>>)

\* Mutant: of two dimensions the first is always the x axis.
infer_visualization_first_is_x(a, registry) ==
    IF Len(a.dimensions) = 2
       /\ (_is_date_field(a.dimensions[1].field, registry)
              # _is_date_field(a.dimensions[2].field, registry))
    THEN VisualizationSpec("multi-line", _get_dimension_name(a, 0),
                           _get_metric_name(a), _get_dimension_name(a, 1))
    ELSE IF Len(a.dimensions) = 0
    THEN VisualizationSpec("kpi", NoName, _get_metric_name(a), NoName)
    ELSE IF Len(a.dimensions) = 1
    THEN VisualizationSpec(
             IF _is_date_field(a.dimensions[1].field, registry)
             THEN "line" ELSE "bar",
             _get_dimension_name(a, 0), _get_metric_name(a), NoName)
    ELSE VisualizationSpec("table", NoName, NoName, NoName)

\* Mutant: a dimension is a date only when its type is date.
infer_visualization_date_only(a, registry) ==
    LET is_date(f) == f \in DOMAIN registry /\ registry[f].field_type = "date"
    IN  IF Len(a.dimensions) = 0
        THEN VisualizationSpec("kpi", NoName, _get_metric_name(a), NoName)
        ELSE IF Len(a.dimensions) = 1
        THEN VisualizationSpec(
                 IF is_date(a.dimensions[1].field) THEN "line" ELSE "bar",
                 _get_dimension_name(a, 0), _get_metric_name(a), NoName)
        ELSE IF Len(a.dimensions) = 2 /\ is_date(a.dimensions[1].field)
                /\ ~is_date(a.dimensions[2].field)
        THEN VisualizationSpec("multi-line", _get_dimension_name(a, 0),
                               _get_metric_name(a), _get_dimension_name(a, 1))
        ELSE IF Len(a.dimensions) = 2 /\ is_date(a.dimensions[2].field)
                /\ ~is_date(a.dimensions[1].field)
        THEN VisualizationSpec("multi-line", _get_dimension_name(a, 1),
                               _get_metric_name(a), _get_dimension_name(a, 0))
        ELSE VisualizationSpec("table", NoName, NoName, NoName)

infer_visualization(a, registry) ==
    LET num_dimensions == Len(a.dimensions)
        num_metrics == Len(a.metrics)
        metric_name == _get_metric_name(a)
    IN  IF num_metrics = 0
        THEN VisualizationSpec("table", NoName, NoName, NoName)
        ELSE IF num_dimensions = 0
        THEN VisualizationSpec("kpi", NoName, metric_name, NoName)
        ELSE IF num_dimensions = 1
        THEN IF _is_date_field(a.dimensions[1].field, registry)
             THEN VisualizationSpec("line", _get_dimension_name(a, 0),
                                    metric_name, NoName)
             ELSE VisualizationSpec("bar", _get_dimension_name(a, 0),
                                    metric_name, NoName)
        ELSE IF num_dimensions = 2
                /\ _is_date_field(a.dimensions[1].field, registry)
                /\ ~_is_date_field(a.dimensions[2].field, registry)
        THEN VisualizationSpec("multi-line", _get_dimension_name(a, 0),
                               metric_name, _get_dimension_name(a, 1))
        ELSE IF num_dimensions = 2
                /\ _is_date_field(a.dimensions[2].field, registry)
                /\ ~_is_date_field(a.dimensions[1].field, registry)
        THEN VisualizationSpec("multi-line", _get_dimension_name(a, 1),
                               metric_name, _get_dimension_name(a, 0))
        ELSE VisualizationSpec("table", NoName, NoName, NoName)

(***************************************************************************)
(* The ASTs of SpecQuery, over the default registry.                       *)
(***************************************************************************)
QueryMetrics ==
    { Metric("sum", "quantity", None),
      Metric("sum", "revenue", "total_revenue"),
      Metric("count", "product_line", None),
      Metric("sum", "nonexistent_field", None) }

QueryDimensions ==
    { Dimension("region", None),
      Dimension("order_month", "month"),
      Dimension("product_line", None),
      Dimension("segment", None),
      Dimension("revenue", None),
      Dimension("unknown_dimension", None) }

QueryFilters ==
    { Filter("region", "=", StrValue(<<"A", "P", "A", "C">>)),
      Filter("category", "in", ListValue(<<"Analytics", "Finance">>)),
      Filter("bad_field", "=", StrValue(<<"t", "e", "s", "t">>)),
      Filter("quantity", "between", ListValue(<<"1">>)),
      Filter("region", "between", IntValue("5")),
      Filter("revenue", "between", IntValue("5")) }

QueryOrderBys ==
    { OrderBy("quantity", "desc"), OrderBy("region", "asc"),
      OrderBy("total_revenue", "desc") }

QueryLimits == {DEFAULT_LIMIT, MAX_LIMIT}

QueryASTs ==
    ASTsUpTo(MaxQueryNodes, QueryMetrics, QueryDimensions, QueryFilters,
             QueryOrderBys, QueryLimits)

(***************************************************************************)
(* SpecQuery                                                               *)
(***************************************************************************)
InitQuery ==
    /\ ast \in QueryASTs
    /\ verdict = NotRun
    /\ plan = NotRun
    /\ stmt = NotRun
    /\ previous = NotRun
    /\ delta = NotRun
    /\ merged = NotRun
    /\ pc = "idle"
    /\ call = NotRun
    /\ result = NotRun
    /\ stored = NotRun
    /\ requests = NotRun

\* ASTValidator.validate(ast)
Validate ==
    /\ verdict = NotRun
    /\ verdict' = validate(ast)
    /\ UNCHANGED <<ast, plan, stmt>>
    /\ UNCHANGED mergeVars
    /\ UNCHANGED callVars
    /\ UNCHANGED pipelineVars

\* JoinResolver.resolve(ast): the required tables are a Python set, iterated
\* in an order the interpreter's string hashing decides.
Resolve ==
    /\ plan = NotRun
    /\ IF \E f \in Range(RequiredFields(ast)) : ~field_has_table(f)
       THEN plan' = resolve(ast, <<>>)
       ELSE \E tables \in IterationOrders(_collect_required_tables(ast)) :
                plan' = resolve(ast, tables)
    /\ UNCHANGED <<ast, verdict, stmt>>
    /\ UNCHANGED mergeVars
    /\ UNCHANGED callVars
    /\ UNCHANGED pipelineVars

\* JoinResolver.resolve(ast) called once more on the same AST, by a process
\* whose string hashing may differ (another worker, or the service after a
\* restart).
ResolveAgain ==
    /\ plan # NotRun
    /\ stmt = NotRun
    /\ IF \E f \in Range(RequiredFields(ast)) : ~field_has_table(f)
       THEN plan' = resolve(ast, <<>>)
       ELSE \E tables \in IterationOrders(_collect_required_tables(ast)) :
                plan' = resolve(ast, tables)
    /\ UNCHANGED <<ast, verdict, stmt>>
    /\ UNCHANGED mergeVars
    /\ UNCHANGED callVars
    /\ UNCHANGED pipelineVars

\* SQLCompiler.compile(ast, join_plan)
Compile ==
    /\ plan.kind = "plan"
    /\ stmt = NotRun
    /\ stmt' = compile(ast, plan)
    /\ UNCHANGED <<ast, verdict, plan>>
    /\ UNCHANGED mergeVars
    /\ UNCHANGED callVars
    /\ UNCHANGED pipelineVars

NextQuery == Validate \/ Resolve \/ ResolveAgain \/ Compile

SpecQuery == InitQuery /\ [][NextQuery]_vars

(***************************************************************************)
(* SpecCalls: one call of a helper, on arguments of every kind its         *)
(* parameters admit.                                                       *)
(***************************************************************************)
FieldTypes == {"string", "numeric", "date", "boolean", "timestamp"}

JoinTypes == {"inner", "left", "right", "full"}

\* Filter values of every shape: scalars, None, lists and tuples of one, two
\* and three items.
CallValues ==
    { StrValue(<<"x">>), IntValue("5"), NoneValue,
      ListValue(<<"1">>), ListValue(<<"1", "9">>), ListValue(<<"1", "5", "9">>),
      TupleValue(<<"1", "9">>), TupleValue(<<"1", "5", "9">>) }

\* _validate_operator and _validate_filter_value on a filter of a physical
\* field of each type.
FilterCalls ==
    { [kind |-> "filter_checks",
       f |-> Filter("field", operator, value),
       field_meta |-> FieldMeta("orders", "field", field_type, FALSE, None)] :
        operator \in FilterOperators, value \in CallValues,
        field_type \in FieldTypes }

\* The limits around the two bounds and the default.
CallLimits ==
    { MIN_LIMIT - 1, MIN_LIMIT, MIN_LIMIT + 1, DEFAULT_LIMIT,
      MAX_LIMIT - 1, MAX_LIMIT, MAX_LIMIT + 1 }

LimitCalls ==
    { [kind |-> kind, limit |-> limit] :
        kind \in {"QueryAST", "_validate_limit"}, limit \in CallLimits }

\* The steps along the declared joins, in both directions, of every kind.
JoinCalls ==
    { [kind |-> "_apply_join",
       join |-> JoinStep(e[1], e[2], e[3], e[3], join_type)] :
        e \in { <<"orders", "products", "product_id">>,
                <<"products", "orders", "product_id">>,
                <<"orders", "customers", "customer_id">>,
                <<"customers", "orders", "customer_id">> },
        join_type \in JoinTypes }

\* Derived-metric expressions of one, two and three operands over columns of
\* orders and a name that is no column; the pieces are the operands and the
\* blank-padded operators.
ExprOperands == {"quantity", "unit_price", "discount"}

Expressions ==
    { <<a>> : a \in ExprOperands }
    \cup { <<a, op, b>> :
             a \in ExprOperands, op \in Range(BinaryOps), b \in ExprOperands }
    \cup { <<a, op1, b, op2, c>> :
             a \in {"quantity"}, op1 \in Range(BinaryOps),
             b \in {"unit_price"}, op2 \in Range(BinaryOps),
             c \in {"quantity", "discount"} }

ExprCalls ==
    { [kind |-> "_parse_expression", expression |-> e, table |-> "orders"] :
        e \in Expressions }

\* The ASTs whose visualization is inferred: up to MaxVizDimensions dimensions
\* of every type, with and without aliases.
VizMetrics ==
    { Metric("sum", "quantity", None), Metric("sum", "revenue", "total") }

VizDimensions ==
    { Dimension("order_date", None), Dimension("created_at", "created"),
      Dimension("region", None), Dimension("category", "cat"),
      Dimension("unknown_field", None) }

VizCalls ==
    { [kind |-> "infer_visualization",
       ast |-> QueryAST(<<m>>, d, <<>>, <<>>, DEFAULT_LIMIT)] :
        m \in VizMetrics, d \in SeqsUpTo(VizDimensions, MaxVizDimensions) }

\* The deltas tested for emptiness.
DeltaCalls ==
    { [kind |-> "is_delta_empty", delta |-> d] : d \in MergeASTs(MaxDeltaNodes) }

InitCalls ==
    /\ call \in FilterCalls \cup LimitCalls \cup JoinCalls \cup ExprCalls
                 \cup VizCalls \cup DeltaCalls
    /\ result = NotRun
    /\ previous = NotRun
    /\ delta = NotRun
    /\ merged = NotRun
    /\ pc = "idle"
    /\ ast = NotRun
    /\ verdict = NotRun
    /\ plan = NotRun
    /\ stmt = NotRun
    /\ stored = NotRun
    /\ requests = NotRun

\* self._validate_operator(f, field_meta); self._validate_filter_value(f,
\* field_meta)
CheckFilter ==
    /\ call.kind = "filter_checks"
    /\ result = NotRun
    /\ result' = _validate_filter_checks(call.f, call.field_meta)
    /\ UNCHANGED <<call>>
    /\ UNCHANGED mergeVars
    /\ UNCHANGED queryVars
    /\ UNCHANGED pipelineVars

\* QueryAST(metrics=[...], limit=limit)
ConstructLimit ==
    /\ call.kind = "QueryAST"
    /\ result = NotRun
    /\ result' = QueryAST(<<Metric("sum", "quantity", None)>>, <<>>, <<>>,
                          <<>>, call.limit)
    /\ UNCHANGED <<call>>
    /\ UNCHANGED mergeVars
    /\ UNCHANGED queryVars
    /\ UNCHANGED pipelineVars

\* self._validate_limit(limit)
CheckLimit ==
    /\ call.kind = "_validate_limit"
    /\ result = NotRun
    /\ result' = _validate_limit(call.limit)
    /\ UNCHANGED <<call>>
    /\ UNCHANGED mergeVars
    /\ UNCHANGED queryVars
    /\ UNCHANGED pipelineVars

\* self._apply_join(from_clause, join)
ApplyJoin ==
    /\ call.kind = "_apply_join"
    /\ result = NotRun
    /\ result' = _apply_join(call.join)
    /\ UNCHANGED <<call>>
    /\ UNCHANGED mergeVars
    /\ UNCHANGED queryVars
    /\ UNCHANGED pipelineVars

\* self._parse_expression(derived.expression, table)
ParseExpression ==
    /\ call.kind = "_parse_expression"
    /\ result = NotRun
    /\ result' = _parse_expression(call.expression, call.table)
    /\ UNCHANGED <<call>>
    /\ UNCHANGED mergeVars
    /\ UNCHANGED queryVars
    /\ UNCHANGED pipelineVars

\* infer_visualization(final_ast, registry)
InferVisualization ==
    /\ call.kind = "infer_visualization"
    /\ result = NotRun
    /\ result' = infer_visualization(call.ast, viz_registry)
    /\ UNCHANGED <<call>>
    /\ UNCHANGED mergeVars
    /\ UNCHANGED queryVars
    /\ UNCHANGED pipelineVars

\* is_delta_empty(delta)
IsDeltaEmpty ==
    /\ call.kind = "is_delta_empty"
    /\ result = NotRun
    /\ result' = [kind |-> "bool", value |-> is_delta_empty(call.delta)]
    /\ UNCHANGED <<call>>
    /\ UNCHANGED mergeVars
    /\ UNCHANGED queryVars
    /\ UNCHANGED pipelineVars

NextCalls ==
    \/ CheckFilter \/ ConstructLimit \/ CheckLimit \/ ApplyJoin
    \/ ParseExpression \/ InferVisualization \/ IsDeltaEmpty

SpecCalls == InitCalls /\ [][NextCalls]_vars

(***************************************************************************)
(* SpecPipeline: requests on one conversation.  A request is one run of    *)
(* NLQService.process_query (or of process_nlq_query_task); it awaits the  *)
(* database between its steps, so the steps of two requests interleave.    *)
(* The parser, the intent classifier and the database are the environment: *)
(* what they return is chosen nondeterministically.                        *)
(***************************************************************************)
\* previous_ast = None, retry_ast = None, no ConversationState row.
NoAST == [kind |-> "none"]

Requests == 1..MaxRequests

\* QueryIntent
REFINE == "refine"
RESET == "reset"

\* What NLQParser.parse returns in this specification.
SumQuantity == Metric("sum", "quantity", None)

ParsedASTs ==
    { QueryAST(<<SumQuantity>>, <<Dimension("region", None)>>, <<>>,
               <<OrderBy("quantity", "desc")>>, DEFAULT_LIMIT),
      QueryAST(<<Metric("avg", "unit_price", None)>>, <<>>, <<>>, <<>>,
               DEFAULT_LIMIT),
      QueryAST(<<SumQuantity>>, <<Dimension("product_line", None)>>, <<>>,
               <<>>, DEFAULT_LIMIT),
      QueryAST(<<SumQuantity>>, <<>>,
               <<Filter("region", "=", StrValue(<<"A", "P", "A", "C">>))>>,
               <<>>, DEFAULT_LIMIT),
      QueryAST(<<Metric("sum", "nonexistent_field", None)>>, <<>>, <<>>, <<>>,
               DEFAULT_LIMIT),
      QueryAST(<<SumQuantity>>, <<Dimension("revenue", None)>>, <<>>, <<>>,
               DEFAULT_LIMIT) }

\* What _retry_parse_with_validation_feedback returns: None, or an AST.
RetryASTs ==
    { NoAST,
      QueryAST(<<SumQuantity>>, <<>>, <<>>, <<>>, DEFAULT_LIMIT),
      QueryAST(<<Metric("sum", "nonexistent_field", None)>>, <<>>, <<>>, <<>>,
               DEFAULT_LIMIT) }

\* What the conversation has stored before the first request.
StoredASTs ==
    { NoAST,
      QueryAST(<<SumQuantity>>, <<Dimension("region", None)>>, <<>>,
               <<OrderBy("quantity", "desc")>>, DEFAULT_LIMIT) }

Last(s) == s[Len(s)]

\* The local variables of process_query before its first step.
NewRequest ==
    [pc |-> "get_conversation", previous_ast |-> NotRun, intent |-> NotRun,
     parsed_ast |-> NotRun, final_ast |-> NotRun, merged |-> FALSE,
     join_plan |-> NotRun, statement |-> NotRun, executed |-> FALSE,
     success |-> FALSE, error_type |-> None]

\* NLQResult(success=False, ..., error_type=error_type)
Failed(req, error_type) ==
    [req EXCEPT !.pc = "returned", !.success = FALSE,
                !.error_type = error_type]

\* Step 4: merge if REFINE.
merge_step(previous_ast, intent, parsed_ast) ==
    IF intent = REFINE /\ previous_ast # NoAST
    THEN LET m == merge_ast(previous_ast, parsed_ast)
         IN  IF m.kind = "error"
             THEN [final_ast |-> parsed_ast, merged |-> FALSE]
             ELSE [final_ast |-> m, merged |-> TRUE]
    ELSE [final_ast |-> parsed_ast, merged |-> FALSE]

\* Mutant: a merged AST that fails validation fails the request.
validate_step_no_fallback(final_ast, is_merged, parsed_ast) ==
    [final_ast |-> final_ast, merged |-> is_merged,
     validation_error |-> validate(final_ast)]

\* Step 5: validate the AST, falling back to the parsed AST if the merged one
\* is invalid.
validate_step(final_ast, is_merged, parsed_ast) ==
    LET validation_error == validate(final_ast)
        fallback_error == validate(parsed_ast)
    IN  IF validation_error # Ok /\ is_merged
        THEN IF fallback_error = Ok
             THEN [final_ast |-> parsed_ast, merged |-> FALSE,
                   validation_error |-> Ok]
             ELSE [final_ast |-> final_ast, merged |-> is_merged,
                   validation_error |-> fallback_error]
        ELSE [final_ast |-> final_ast, merged |-> is_merged,
              validation_error |-> validation_error]

\* The retry: parse once more if the AST is still invalid.
retry_step(v, retry_ast) ==
    IF v.validation_error # Ok /\ retry_ast # NoAST
    THEN IF validate(retry_ast) = Ok
         THEN [final_ast |-> retry_ast, merged |-> FALSE,
               validation_error |-> Ok]
         ELSE [v EXCEPT !.validation_error = validate(retry_ast)]
    ELSE v

\* Steps 4 and 5 and the retry.
merge_and_validate(previous_ast, intent, parsed_ast, retry_ast) ==
    LET m == merge_step(previous_ast, intent, parsed_ast)
    IN  retry_step(validate_step(m.final_ast, m.merged, parsed_ast),
                   retry_ast)

\* Mutant: the parsed AST is saved, not the final one.
saved_ast_parsed(req) == req.parsed_ast

\* The AST process_query hands to _save_conversation_state.
saved_ast(req) == req.final_ast

InitPipeline ==
    /\ stored \in {<<a>> : a \in StoredASTs}
    /\ requests = [r \in Requests |-> NewRequest]
    /\ previous = NotRun
    /\ delta = NotRun
    /\ merged = NotRun
    /\ pc = "idle"
    /\ ast = NotRun
    /\ verdict = NotRun
    /\ plan = NotRun
    /\ stmt = NotRun
    /\ call = NotRun
    /\ result = NotRun

\* Step 1: _get_or_create_conversation loads the previous AST.
GetConversation(r) ==
    /\ requests[r].pc = "get_conversation"
    /\ requests' = [requests EXCEPT ![r].pc = "classify",
                                    ![r].previous_ast = Last(stored)]
    /\ UNCHANGED stored
    /\ UNCHANGED <<mergeVars, queryVars, callVars>>

\* Step 3 fails: the parser raises.
ParseError(r) ==
    /\ requests[r].pc = "classify"
    /\ \E intent \in IF requests[r].previous_ast = NoAST
                     THEN {RESET} ELSE {REFINE, RESET} :
           requests' = [requests EXCEPT
                           ![r] = Failed([@ EXCEPT !.intent = intent],
                                         "parse_error")]
    /\ UNCHANGED stored
    /\ UNCHANGED <<mergeVars, queryVars, callVars>>

\* Steps 2 to 5: classify, parse, merge, validate, retry.
ClassifyParseValidate(r) ==
    /\ requests[r].pc = "classify"
    /\ \E intent \in IF requests[r].previous_ast = NoAST
                     THEN {RESET} ELSE {REFINE, RESET},
          parsed_ast \in ParsedASTs, retry_ast \in RetryASTs :
           LET v == merge_and_validate(requests[r].previous_ast, intent,
                                       parsed_ast, retry_ast)
               req == [requests[r] EXCEPT !.intent = intent,
                                          !.parsed_ast = parsed_ast,
                                          !.final_ast = v.final_ast,
                                          !.merged = v.merged]
           IN  requests' = [requests EXCEPT
                   ![r] = IF v.validation_error # Ok
                          THEN Failed(req, "validation_error")
                          ELSE [req EXCEPT !.pc = "resolve"]]
    /\ UNCHANGED stored
    /\ UNCHANGED <<mergeVars, queryVars, callVars>>

\* Step 6: resolve the joins.
ResolveJoins(r) ==
    /\ requests[r].pc = "resolve"
    /\ \E tables \in IterationOrders(
                        _collect_required_tables(requests[r].final_ast)) :
           LET join_plan == resolve(requests[r].final_ast, tables)
           IN  requests' = [requests EXCEPT
                   ![r] = IF join_plan.kind = "error"
                          THEN Failed([@ EXCEPT !.join_plan = join_plan],
                                      "join_resolution_error")
                          ELSE [@ EXCEPT !.join_plan = join_plan,
                                         !.pc = "compile"]]
    /\ UNCHANGED stored
    /\ UNCHANGED <<mergeVars, queryVars, callVars>>

\* Step 7: compile the SQL.
CompileSQL(r) ==
    /\ requests[r].pc = "compile"
    /\ LET statement == compile(requests[r].final_ast, requests[r].join_plan)
       IN  requests' = [requests EXCEPT
               ![r] = IF statement.kind = "error"
                      THEN Failed(@, "compilation_error")
                      ELSE [@ EXCEPT !.statement = statement,
                                     !.pc = "execute"]]
    /\ UNCHANGED stored
    /\ UNCHANGED <<mergeVars, queryVars, callVars>>

\* Steps 8 to 10: execute the statement; the explanation and the
\* visualization change nothing.
ExecuteQuery(r) ==
    /\ requests[r].pc = "execute"
    /\ \E executed \in BOOLEAN :
           requests' = [requests EXCEPT
               ![r] = IF executed
                      THEN [@ EXCEPT !.executed = TRUE, !.pc = "save"]
                      ELSE Failed(@, "execution_error")]
    /\ UNCHANGED stored
    /\ UNCHANGED <<mergeVars, queryVars, callVars>>

\* Step 11: _save_conversation_state updates the row, or inserts it.
SaveConversationState(r) ==
    /\ requests[r].pc = "save"
    /\ stored' = Append(stored, saved_ast(requests[r]))
    /\ requests' = [requests EXCEPT ![r].pc = "returned",
                                    ![r].success = TRUE]
    /\ UNCHANGED <<mergeVars, queryVars, callVars>>

\* reset_conversation deletes the row.
ResetConversation ==
    /\ Cardinality({i \in 2..Len(stored) : stored[i] = NoAST}) < MaxResets
    /\ Last(stored) # NoAST
    /\ stored' = Append(stored, NoAST)
    /\ UNCHANGED requests
    /\ UNCHANGED <<mergeVars, queryVars, callVars>>

NextPipeline ==
    \/ \E r \in Requests : GetConversation(r)
    \/ \E r \in Requests : ParseError(r)
    \/ \E r \in Requests : ClassifyParseValidate(r)
    \/ \E r \in Requests : ResolveJoins(r)
    \/ \E r \in Requests : CompileSQL(r)
    \/ \E r \in Requests : ExecuteQuery(r)
    \/ \E r \in Requests : SaveConversationState(r)
    \/ ResetConversation

SpecPipeline == InitPipeline /\ [][NextPipeline]_vars

(***************************************************************************)
(* Properties of the merge engine (checked under SpecMerge).               *)
(***************************************************************************)
Merged == pc = "merged" /\ merged.kind = "ast"

\* The elements of s at the indices in I, in ascending order of index.
RECURSIVE SubSeqAt(_, _, _)
SubSeqAt(s, I, i) ==
    IF i > Len(s) THEN <<>>
    ELSE (IF i \in I THEN <<s[i]>> ELSE <<>>) \o SubSeqAt(s, I, i + 1)

\* The indices of the delta dimensions whose field is neither a field of the
\* previous dimensions nor the field of an earlier delta dimension.
NewDimensionIndices(prev, dlt) ==
    { i \in DOMAIN dlt :
        /\ dlt[i].field \notin FieldsOf(prev)
        /\ \A j \in 1..(i - 1) : dlt[j].field # dlt[i].field }

Occurrences(s, f) == Cardinality({i \in DOMAIN s : s[i].field = f})

\* The last filter of fs on field f.
LastOn(fs, f) ==
    fs[CHOOSE i \in DOMAIN fs :
          fs[i].field = f /\ \A j \in DOMAIN fs : fs[j].field = f => j <= i]

\* C3 (as claimed): after merge_ast(P, D) the merged metric list is D's
\* metric list, with D's aliases and D's order.
C3_MetricsAreDeltas ==
    pc = "merged" => merged.kind = "ast" /\ merged.metrics = delta.metrics

\* C4 (as claimed): the merged dimensions are P's dimensions followed by the
\* delta dimensions with a new field, they cover the fields of P and D, and
\* no field occurs twice.
C4_DimensionsDedupUnion ==
    pc = "merged" =>
        /\ merged.kind = "ast"
        /\ merged.dimensions =
               previous.dimensions \o
               SubSeqAt(delta.dimensions,
                        NewDimensionIndices(previous.dimensions,
                                            delta.dimensions), 1)
        /\ FieldsOf(merged.dimensions) =
               FieldsOf(previous.dimensions) \cup FieldsOf(delta.dimensions)
        /\ Distinct(FieldSeq(merged.dimensions))

\* C4 (amended): the merged dimensions are P's dimensions, unchanged, followed
\* by the delta dimensions whose field is new, in D's order; they cover the
\* fields of P and D; a field of P occurs as often as it does in P and every
\* other field once, so no field occurs twice when P's fields are distinct.
C4_DimensionsUnionPreviousFirst ==
    pc = "merged" =>
        /\ merged.kind = "ast"
        /\ merged.dimensions =
               previous.dimensions \o
               SubSeqAt(delta.dimensions,
                        NewDimensionIndices(previous.dimensions,
                                            delta.dimensions), 1)
        /\ FieldsOf(merged.dimensions) =
               FieldsOf(previous.dimensions) \cup FieldsOf(delta.dimensions)
        /\ \A f \in FieldsOf(merged.dimensions) :
               Occurrences(merged.dimensions, f) =
                   IF f \in FieldsOf(previous.dimensions)
                   THEN Occurrences(previous.dimensions, f)
                   ELSE 1
        /\ (Distinct(FieldSeq(previous.dimensions))
               => Distinct(FieldSeq(merged.dimensions)))

\* C4 witness: a delta dimension on a field P already groups by (under another
\* alias) was dropped, and one on a new field was appended.
C4_Witness ==
    /\ Merged
    /\ \E i \in DOMAIN delta.dimensions :
           /\ delta.dimensions[i].field \in FieldsOf(previous.dimensions)
           /\ delta.dimensions[i] \notin Range(previous.dimensions)
           /\ delta.dimensions[i] \notin Range(merged.dimensions)

\* C4 second witness: two new delta dimensions were appended in D's order.
C4_WitnessAppend ==
    /\ Merged
    /\ Len(delta.dimensions) = 2
    /\ Len(merged.dimensions) = Len(previous.dimensions) + 2

\* C5: the filter fields of the merged AST are the union of P's and D's, and
\* a field filtered on both sides carries exactly one merged filter, D's (the
\* last one D gives for the field).
C5_FilterOverride ==
    pc = "merged" =>
        /\ merged.kind = "ast"
        /\ FieldsOf(merged.filters) =
               FieldsOf(previous.filters) \cup FieldsOf(delta.filters)
        /\ \A f \in FieldsOf(previous.filters) \cap FieldsOf(delta.filters) :
               /\ Occurrences(merged.filters, f) = 1
               /\ LastOn(merged.filters, f) = LastOn(delta.filters, f)

\* C5 witness: P and D filter the same field with different values and the
\* merged AST carries D's.
C5_Witness ==
    /\ Merged
    /\ \E f \in FieldsOf(previous.filters) \cap FieldsOf(delta.filters) :
           /\ LastOn(previous.filters, f) # LastOn(delta.filters, f)
           /\ LastOn(merged.filters, f) = LastOn(delta.filters, f)
           /\ Occurrences(merged.filters, f) = 1

\* C6 (as claimed): a filter of P on a field D does not filter, and a filter
\* of D on a field P does not filter, is still in the merged filter list.
C6_DisjointFiltersSurvive ==
    pc = "merged" =>
        /\ merged.kind = "ast"
        /\ \A i \in DOMAIN previous.filters :
               previous.filters[i].field \notin FieldsOf(delta.filters)
                   => previous.filters[i] \in Range(merged.filters)
        /\ \A i \in DOMAIN delta.filters :
               delta.filters[i].field \notin FieldsOf(previous.filters)
                   => delta.filters[i] \in Range(merged.filters)

\* C7 (as claimed): merging an AST with itself gives back its metrics,
\* dimensions, filters and order_by.
C7_SelfMergeIdempotent ==
    (pc = "merged" /\ delta = previous) =>
        /\ merged.kind = "ast"
        /\ merged.metrics = previous.metrics
        /\ merged.dimensions = previous.dimensions
        /\ merged.filters = previous.filters
        /\ merged.order_by = previous.order_by

\* C8: merge_ast never raises on well-formed inputs, its result has at least
\* one metric and a limit in [1, 1000], and the call leaves P and D as they
\* were.
C8_MergeTotalAndPure ==
    /\ [](pc = "merged" =>
            /\ merged.kind = "ast"
            /\ Len(merged.metrics) >= 1
            /\ merged.limit >= MIN_LIMIT /\ merged.limit <= MAX_LIMIT)
    /\ [][previous' = previous /\ delta' = delta]_vars

\* C8 witness: a merge whose metrics come from one side and whose limit from
\* the other.
C8_Witness ==
    /\ Merged
    /\ merged.metrics = delta.metrics /\ merged.metrics # previous.metrics
    /\ merged.limit = previous.limit /\ merged.limit # delta.limit
    /\ merged.limit = MAX_LIMIT

\* C9: the merged order_by is D's when D's is non-empty and P's otherwise; the
\* merged limit is D's when D's is not 50 and P's otherwise.
C9_OrderByAndLimit ==
    pc = "merged" =>
        /\ merged.kind = "ast"
        /\ (delta.order_by # <<>> => merged.order_by = delta.order_by)
        /\ (delta.order_by = <<>> => merged.order_by = previous.order_by)
        /\ (delta.limit # 50 => merged.limit = delta.limit)
        /\ (delta.limit = 50 => merged.limit = previous.limit)

\* C9 witness: a delta limit of 50 did not override P's limit, and an empty
\* delta order_by kept P's ordering.
C9_Witness ==
    /\ Merged
    /\ delta.limit = 50 /\ previous.limit # 50
    /\ merged.limit = previous.limit
    /\ delta.order_by = <<>> /\ previous.order_by # <<>>
    /\ merged.order_by = previous.order_by

\* C9 second witness: a non-default delta limit and a non-empty delta order_by
\* replaced P's.
C9_WitnessDeltaWins ==
    /\ Merged
    /\ delta.limit # 50 /\ previous.limit # delta.limit
    /\ merged.limit = delta.limit
    /\ delta.order_by # <<>> /\ previous.order_by # <<>>
    /\ previous.order_by # delta.order_by
    /\ merged.order_by = delta.order_by

(***************************************************************************)
(* Properties of the validator, the join resolver and the compiler         *)
(* (checked under SpecQuery).                                              *)
(***************************************************************************)
\* The names the registry knows: physical fields and derived metrics.
RegisteredNames == DOMAIN _field_index \cup DOMAIN _derived_metrics

\* The fields an AST names in a metric, a dimension or a filter.
NamedFields(a) ==
    FieldsOf(a.metrics) \cup FieldsOf(a.dimensions) \cup FieldsOf(a.filters)

\* C1: an AST that validate accepts names only registered fields in its
\* metrics, dimensions and filters; an AST naming an unregistered field there
\* is rejected with ASTValidationError, so after a successful validation
\* neither resolve nor compile meets an unknown field.
C1_NoUnknownFieldPassesValidation ==
    /\ verdict.kind = "ok" => NamedFields(ast) \subseteq RegisteredNames
    /\ (verdict # NotRun /\ ~(NamedFields(ast) \subseteq RegisteredNames))
           => verdict.kind = "error" /\ verdict.error = "ASTValidationError"
    /\ (verdict.kind = "ok" /\ plan.kind = "error")
           => plan.reason # "cannot_resolve_table"
    /\ (verdict.kind = "ok" /\ stmt.kind = "error")
           => stmt # SQLCompileError("unknown_field")

\* C1 witness: an AST with a derived metric, a dimension and a filter passed
\* validation and was resolved and compiled.
C1_Witness ==
    /\ verdict.kind = "ok"
    /\ \E i \in DOMAIN ast.metrics : ast.metrics[i].field = "revenue"
    /\ ast.dimensions # <<>> /\ ast.filters # <<>>
    /\ plan.kind = "plan" /\ stmt.kind = "select"

\* C1 second witness: an AST whose only unknown field is in a filter was
\* rejected.
C1_WitnessRejected ==
    /\ verdict.kind = "error"
    /\ FieldsOf(ast.metrics) \cup FieldsOf(ast.dimensions)
           \subseteq RegisteredNames
    /\ ~(FieldsOf(ast.filters) \subseteq RegisteredNames)

\* The expression compile must use for a dimension on physical field f.
DimensionExpr(f) ==
    LET bare == ColumnExpr(_field_index[f].table, _field_index[f].column)
    IN  IF _field_index[f].date_trunc # None
        THEN DateTrunc(_field_index[f].date_trunc, bare)
        ELSE bare

Unlabelled(e) == IF e.expr = "label" THEN e.arg ELSE e

\* C2: in a compiled statement the GROUP BY entry of every dimension is the
\* expression of its SELECT entry: date_trunc(granularity, column) for a
\* field with a truncation granularity, the bare column otherwise.
C2_GroupByMatchesSelect ==
    stmt.kind = "select" =>
        /\ Len(stmt.group_by) = Len(ast.dimensions)
        /\ \A i \in DOMAIN ast.dimensions :
               /\ stmt.group_by[i] = DimensionExpr(ast.dimensions[i].field)
               /\ Unlabelled(stmt.columns[i]) = stmt.group_by[i]

\* C2 witness: a statement with a truncated, aliased dimension and an
\* untruncated one was compiled.
C2_Witness ==
    /\ stmt.kind = "select"
    /\ \E i, j \in DOMAIN ast.dimensions :
           /\ stmt.group_by[i].expr = "date_trunc"
           /\ stmt.columns[i].expr = "label"
           /\ stmt.group_by[j].expr = "column"

\* The table of a registered name.
TableOf(f) ==
    IF f \in DOMAIN _derived_metrics THEN _derived_metrics[f].base_table
    ELSE _field_index[f].table

\* The AST with its metric list reversed.
MetricsReversed(a) ==
    [a EXCEPT !.metrics =
        [i \in DOMAIN a.metrics |-> a.metrics[Len(a.metrics) + 1 - i]]]

\* C10: the base table of a resolved plan is the table of the first metric
\* (a derived metric's declared base table), whatever the other metrics,
\* the dimensions and the filters; resolving the AST with its metrics
\* reordered gives the table of the metric that then comes first.
C10_BaseTableIsFirstMetricsTable ==
    plan.kind = "plan" =>
        /\ plan.base_table = TableOf(ast.metrics[1].field)
        /\ \A tables \in IterationOrders(_collect_required_tables(ast)) :
               LET r == resolve(MetricsReversed(ast), tables)
               IN  r.kind = "plan" =>
                       r.base_table =
                           TableOf(ast.metrics[Len(ast.metrics)].field)

\* C10 witness: the first metric is on products and a later metric or a
\* dimension on orders; the plan is based on products.
C10_Witness ==
    /\ plan.kind = "plan"
    /\ plan.base_table = "products"
    /\ "orders" \in {TableOf(f) : f \in NamedFields(ast)}
    /\ plan.joins # <<>>

\* C10 second witness: two metrics of different tables, the base table is the
\* first one's and the reordered AST resolves to the other's.
C10_WitnessReordered ==
    /\ plan.kind = "plan"
    /\ Len(ast.metrics) = 2
    /\ TableOf(ast.metrics[1].field) # TableOf(ast.metrics[2].field)
    /\ plan.base_table = TableOf(ast.metrics[1].field)
    /\ \E tables \in IterationOrders(_collect_required_tables(ast)) :
           LET r == resolve(MetricsReversed(ast), tables)
           IN  r.kind = "plan" /\ r.base_table # plan.base_table

(***************************************************************************)
(* Properties of the join resolver (checked under SpecQuery).              *)
(***************************************************************************)
\* Every field resolve looks up has a table.
AllResolvable(a) == NamedFields(a) \subseteq RegisteredNames

\* The tables the query needs besides the base table.
NonBaseTables(a) ==
    {TableOf(f) : f \in NamedFields(a)} \ {TableOf(a.metrics[1].field)}

\* The registry declares a join between tables x and y, in either direction.
Declared(x, y) ==
    \E k \in DOMAIN _DEFAULT_JOINS :
        \/ _DEFAULT_JOINS[k].left_table = x /\ _DEFAULT_JOINS[k].right_table = y
        \/ _DEFAULT_JOINS[k].left_table = y /\ _DEFAULT_JOINS[k].right_table = x

\* The step runs along a declared edge, its keys swapped when the edge was
\* declared with the step's left table on the right.
AlongDeclaredEdge(step) ==
    \E k \in DOMAIN _DEFAULT_JOINS :
        LET e == _DEFAULT_JOINS[k]
        IN  \/ /\ e.left_table = step.left_table
               /\ e.right_table = step.right_table
               /\ step.left_key = e.left_key
               /\ step.right_key = e.right_key
            \/ /\ e.right_table = step.left_table
               /\ e.left_table = step.right_table
               /\ step.left_key = e.right_key
               /\ step.right_key = e.left_key

\* C11: every step of a plan joins the base table (left) to a required
\* non-base table (right), there is exactly one step per required non-base
\* table and none for the base table, and the keys follow the direction of
\* the step: left_key is a column of the base table, right_key of the other.
C11_StepsStartAtBaseTable ==
    plan.kind = "plan" =>
        /\ Len(plan.joins) = Cardinality(NonBaseTables(ast))
        /\ \A t \in NonBaseTables(ast) :
               Cardinality({i \in DOMAIN plan.joins :
                               plan.joins[i].right_table = t}) = 1
        /\ \A i \in DOMAIN plan.joins :
               /\ plan.joins[i].left_table = plan.base_table
               /\ plan.joins[i].right_table \in NonBaseTables(ast)
               /\ AlongDeclaredEdge(plan.joins[i])
               /\ plan.joins[i].left_key
                      \in sqlalchemy_tables[plan.joins[i].left_table]
               /\ plan.joins[i].right_key
                      \in sqlalchemy_tables[plan.joins[i].right_table]

\* C11 witness: a plan based on products whose step reaches orders along the
\* edge the registry declares as orders -> products.
C11_Witness ==
    /\ plan.kind = "plan"
    /\ plan.base_table = "products"
    /\ Len(plan.joins) = 1
    /\ plan.joins[1].left_table = "products"
    /\ plan.joins[1].right_table = "orders"
    /\ \E k \in DOMAIN _DEFAULT_JOINS :
           /\ _DEFAULT_JOINS[k].left_table = "orders"
           /\ _DEFAULT_JOINS[k].right_table = "products"

\* Table y can be reached from table x over declared joins (at most two hops
\* suffice among three tables).
Reachable(x, y) ==
    \/ Declared(x, y)
    \/ \E z \in DOMAIN sqlalchemy_tables : Declared(x, z) /\ Declared(z, y)

\* C12: when every field resolves to a table and some required table has no
\* direct join to the base table, resolve raises the no-join-path error, also
\* when that table is reachable over a chain of joins; and every step of a
\* returned plan runs along one declared edge.
C12_NoMultiHopJoin ==
    /\ (/\ plan # NotRun
        /\ AllResolvable(ast)
        /\ \E t \in NonBaseTables(ast) :
               ~Declared(TableOf(ast.metrics[1].field), t))
           => plan = JoinResolutionError("no_join_path")
    /\ plan.kind = "plan" =>
           \A i \in DOMAIN plan.joins :
               Declared(plan.joins[i].left_table, plan.joins[i].right_table)

\* C12 witness: the base table is products, customers is required and is
\* reachable through orders, and resolve raised the no-join-path error.
C12_Witness ==
    /\ plan = JoinResolutionError("no_join_path")
    /\ TableOf(ast.metrics[1].field) = "products"
    /\ "customers" \in NonBaseTables(ast)
    /\ ~Declared("products", "customers")
    /\ Reachable("products", "customers")

\* C13 (as claimed): resolve called again on the same AST and registry
\* returns the plan it returned before, the order of its steps included.
C13_ResolveDeterministic ==
    [][(plan # NotRun /\ ast' = ast) => plan' = plan]_vars

(***************************************************************************)
(* Properties of the validator (checked under SpecCalls and SpecQuery).    *)
(***************************************************************************)
\* The operators the specification allows for each field type.
OperatorsFor(field_type) ==
    CASE field_type = "string" ->
           {"=", "!=", "in", "not_in", "like", "is_null", "is_not_null"}
      [] field_type = "numeric" ->
           {"=", "!=", ">", ">=", "<", "<=", "between", "in", "not_in",
            "is_null", "is_not_null"}
      [] field_type \in {"date", "timestamp"} ->
           {"=", "!=", ">", ">=", "<", "<=", "between", "is_null",
            "is_not_null"}
      [] field_type = "boolean" -> {"=", "!=", "is_null", "is_not_null"}

\* The value of a between filter is a sequence of exactly two values.
TwoValues(f) == f.value.type \in {"list", "tuple"} /\ Len(f.value.items) = 2

\* The value has the shape its operator needs: two values for between, a
\* list for in and not_in.
WellFormedValue(f) ==
    /\ f.operator = "between" => TwoValues(f)
    /\ f.operator \in {"in", "not_in"} => f.value.type = "list"

\* C14: a filter on a physical field of type T with a well-formed value
\* passes the validator's checks if and only if its operator is one the
\* specification allows for T.
C14_OperatorAllowedForType ==
    (call.kind = "filter_checks" /\ result # NotRun /\ WellFormedValue(call.f))
        => (result = Ok <=>
               call.f.operator \in OperatorsFor(call.field_meta.field_type))

\* C14 witness: an ordering comparison on a boolean field was rejected.
C14_Witness ==
    /\ call.kind = "filter_checks"
    /\ call.field_meta.field_type = "boolean"
    /\ call.f.operator = ">"
    /\ WellFormedValue(call.f)
    /\ result = ASTValidationError("operator_not_allowed")

\* C14 second witness: between on a timestamp field with two values passed.
C14_WitnessAccepted ==
    /\ call.kind = "filter_checks"
    /\ call.field_meta.field_type = "timestamp"
    /\ call.f.operator = "between"
    /\ result = Ok

\* The reason of a validation error, "none" when validate returned.
Reason(v) == IF v.kind = "error" THEN v.reason ELSE "none"

Physical(f) == f \in DOMAIN _field_index /\ f \notin DOMAIN _derived_metrics

\* C15: an AST with a metric on a physical field that is not aggregatable is
\* rejected, whatever the aggregate function; a metric on a derived metric
\* never fails the metric checks.
C15_MetricsMustBeAggregatable ==
    verdict # NotRun =>
        /\ (\E i \in DOMAIN ast.metrics :
               /\ Physical(ast.metrics[i].field)
               /\ ~_field_index[ast.metrics[i].field].aggregatable)
               => verdict.kind = "error"
        /\ (\A i \in DOMAIN ast.metrics :
               ast.metrics[i].field \in DOMAIN _derived_metrics)
               => Reason(verdict) \notin
                      {"unknown_metric_field", "not_aggregatable"}

\* C15 witness: count over the string field product_line was rejected as not
\* aggregatable.
C15_Witness ==
    /\ verdict = ASTValidationError("not_aggregatable")
    /\ ast.metrics[1].function = "count"
    /\ ast.metrics[1].field = "product_line"

\* C15 second witness: an AST whose only metric is derived was accepted.
C15_WitnessDerived ==
    /\ verdict = Ok
    /\ \A i \in DOMAIN ast.metrics :
           ast.metrics[i].field \in DOMAIN _derived_metrics

\* C16 (as claimed): no AST that validate accepts has a between filter whose
\* value is not a sequence of exactly two values, or an in / not_in filter
\* whose value is not a list.
C16_MalformedValuesRejected ==
    verdict = Ok =>
        \A i \in DOMAIN ast.filters : WellFormedValue(ast.filters[i])

\* The names an order-by may use: the field or the alias of a metric or of a
\* dimension of the AST.
SelectedNames(a) ==
    {a.metrics[i].field : i \in DOMAIN a.metrics}
    \cup {a.dimensions[i].field : i \in DOMAIN a.dimensions}
    \cup ({a.metrics[i].alias : i \in DOMAIN a.metrics} \ {None})
    \cup ({a.dimensions[i].alias : i \in DOMAIN a.dimensions} \ {None})

\* C17: an AST that validate accepts orders only by the field or the alias of
\* one of its own metrics or dimensions; an order-by on any other name is
\* rejected.
C17_OrderByNamesSelected ==
    verdict # NotRun =>
        /\ verdict = Ok =>
               \A i \in DOMAIN ast.order_by :
                   ast.order_by[i].field \in SelectedNames(ast)
        /\ (\E i \in DOMAIN ast.order_by :
               ast.order_by[i].field \notin SelectedNames(ast))
               => verdict.kind = "error"

\* C17 witness: an order-by on a registered field the AST does not select was
\* rejected.
C17_Witness ==
    /\ verdict = ASTValidationError("order_by_not_selected")
    /\ \E i \in DOMAIN ast.order_by :
           /\ ast.order_by[i].field \in RegisteredNames
           /\ ast.order_by[i].field \notin SelectedNames(ast)

\* C17 second witness: an order-by on the alias of a metric was accepted.
C17_WitnessAlias ==
    /\ verdict = Ok
    /\ \E i \in DOMAIN ast.order_by, j \in DOMAIN ast.metrics :
           /\ ast.order_by[i].field = ast.metrics[j].alias
           /\ ast.order_by[i].field # ast.metrics[j].field

\* C18: a limit is accepted exactly when 1 <= limit <= 1000, by the QueryAST
\* constructor and by _validate_limit alike; outside the range each raises
\* its validation error about the limit.
C18_LimitRange ==
    /\ (call.kind = "_validate_limit" /\ result # NotRun) =>
           /\ result = Ok <=> (1 <= call.limit /\ call.limit <= 1000)
           /\ call.limit > 1000 => result = ASTValidationError("limit_too_large")
           /\ call.limit < 1 => result = ASTValidationError("limit_too_small")
    /\ (call.kind = "QueryAST" /\ result # NotRun) =>
           /\ result.kind = "ast" <=> (1 <= call.limit /\ call.limit <= 1000)
           /\ result.kind = "ast" => result.limit = call.limit
           /\ result.kind # "ast" => result.error = "ValidationError"

\* C18 witness: _validate_limit accepted the limit 1000.
C18_Witness ==
    /\ call.kind = "_validate_limit"
    /\ call.limit = 1000
    /\ result = Ok

\* C18 second witness: 1001 and 0 were rejected.
C18_WitnessRejected ==
    /\ call.kind \in {"_validate_limit", "QueryAST"}
    /\ call.limit \in {0, 1001}
    /\ result.kind = "error"

\* What each check of the validation order finds, "none" when it passes.
MetricFinding(m) ==
    IF m.field \notin RegisteredNames THEN "unknown_metric_field"
    ELSE IF Physical(m.field) /\ ~_field_index[m.field].aggregatable
    THEN "not_aggregatable"
    ELSE "none"

DimensionFinding(d) ==
    IF d.field \notin RegisteredNames THEN "unknown_dimension_field"
    ELSE "none"

\* Per filter: existence, then operator, then value shape (the last two on
\* physical fields).
FilterFinding(f) ==
    IF f.field \notin RegisteredNames THEN "unknown_filter_field"
    ELSE IF f.field \notin DOMAIN _field_index THEN "none"
    ELSE IF f.operator \notin OperatorsFor(_field_index[f.field].field_type)
    THEN "operator_not_allowed"
    ELSE IF f.operator = "between" /\ ~TwoValues(f)
    THEN "between_needs_two_values"
    ELSE IF f.operator \in {"in", "not_in"}
            /\ f.value.type \notin {"list", "tuple"}
    THEN "in_needs_list"
    ELSE "none"

OrderByFinding(a, o) ==
    IF o.field \notin SelectedNames(a) THEN "order_by_not_selected" ELSE "none"

LimitFinding(limit) ==
    IF limit > 1000 THEN "limit_too_large"
    ELSE IF limit < 1 THEN "limit_too_small"
    ELSE "none"

\* The findings of all checks, in the order validate makes them.
Findings(a) ==
    [i \in DOMAIN a.metrics |-> MetricFinding(a.metrics[i])]
    \o [i \in DOMAIN a.dimensions |-> DimensionFinding(a.dimensions[i])]
    \o [i \in DOMAIN a.filters |-> FilterFinding(a.filters[i])]
    \o [i \in DOMAIN a.order_by |-> OrderByFinding(a, a.order_by[i])]
    \o <<LimitFinding(a.limit)>>

Violations(a) == {i \in DOMAIN Findings(a) : Findings(a)[i] # "none"}

\* C19: validate reports exactly the first violation in the order metrics,
\* dimensions, filters (per filter: existence, operator, value shape),
\* order_by, limit, and returns only when there is none.
C19_FirstViolationReported ==
    verdict # NotRun =>
        IF Violations(ast) = {}
        THEN verdict = Ok
        ELSE /\ verdict.kind = "error"
             /\ verdict.error = "ASTValidationError"
             /\ \E i \in Violations(ast) :
                    /\ \A j \in Violations(ast) : i <= j
                    /\ verdict.reason = Findings(ast)[i]

\* C19 witness: an AST with violations of two different checks, of which the
\* earlier one was reported.
C19_Witness ==
    /\ verdict.kind = "error"
    /\ \E i, j \in Violations(ast) :
           /\ i < j
           /\ Findings(ast)[i] # Findings(ast)[j]
           /\ verdict.reason = Findings(ast)[i]
           /\ \A k \in Violations(ast) : i <= k

\* C19 second witness: a filter with a disallowed operator and a malformed
\* value was reported for its operator.
C19_WitnessWithinFilter ==
    /\ verdict = ASTValidationError("operator_not_allowed")
    /\ \E i \in DOMAIN ast.filters :
           /\ FilterFinding(ast.filters[i]) = "operator_not_allowed"
           /\ ~WellFormedValue(ast.filters[i])

(***************************************************************************)
(* Properties of the compiler's join handling (checked under SpecCalls).   *)
(***************************************************************************)
\* C20 (as claimed): a step compiles to the join of its own kind: inner to an
\* inner join, left to a left outer join, full to a full outer join, and no
\* step that differs from it only in kind compiles to the same join.
C20_JoinKindsDistinct ==
    (call.kind = "_apply_join" /\ result # NotRun) =>
        /\ result.kind = "value"
        /\ call.join.join_type = "inner" =>
               ~result.value.isouter /\ ~result.value.full
        /\ call.join.join_type = "left" =>
               result.value.isouter /\ ~result.value.full
        /\ call.join.join_type = "full" => result.value.full
        /\ \A k \in JoinTypes \ {call.join.join_type} :
               _apply_join([call.join EXCEPT !.join_type = k]) # result

(***************************************************************************)
(* Properties of derived-metric expressions (checked under SpecCalls).     *)
(***************************************************************************)
\* The expression is a column of the table, or two columns of the table
\* joined by exactly one of the four operators.
ResolvableExpression(e, table) ==
    \/ Len(e) = 1 /\ e[1] \in sqlalchemy_tables[table]
    \/ /\ Len(e) = 3
       /\ e[2] \in {" * ", " / ", " + ", " - "}
       /\ e[1] \in sqlalchemy_tables[table]
       /\ e[3] \in sqlalchemy_tables[table]

\* C21 (as claimed): an expression that cannot be resolved raises
\* SQLCompileError, never another exception and never an expression.
C21_UnparsableExpressionIsCompileError ==
    (/\ call.kind = "_parse_expression"
     /\ result # NotRun
     /\ ~ResolvableExpression(call.expression, call.table))
        => (result.kind = "error" /\ result.error = "SQLCompileError")

(***************************************************************************)
(* Properties of the visualization inference and of is_delta_empty         *)
(* (checked under SpecCalls).                                              *)
(***************************************************************************)
\* The dimension's type in the registry is date or timestamp; a field the
\* registry does not know is no date.
DateTyped(d) ==
    /\ d.field \in DOMAIN viz_registry
    /\ viz_registry[d.field].field_type \in {"date", "timestamp"}

\* alias or field
ShownName(d) == Str(<<IF d.alias # None THEN d.alias ELSE d.field>>)

\* The first metric's alias, or '{function}_{field}'.
ShownMetric(a) ==
    IF a.metrics[1].alias # None THEN Str(<<a.metrics[1].alias>>)
    ELSE Str(<<a.metrics[1].function, "_", a.metrics[1].field>>)

C23_WitnessUnknown ==
    /\ call.kind = "infer_visualization"
    /\ result # NotRun
    /\ Len(call.ast.dimensions) = 1
    /\ call.ast.dimensions[1].field \notin DOMAIN viz_registry
    /\ result.type = "bar"

\* The AST with its two dimensions swapped.
DimensionsSwapped(a) ==
    [a EXCEPT !.dimensions = <<a.dimensions[2], a.dimensions[1]>>]

C25_DeltaEmptyIffDefaults ==
    (call.kind = "is_delta_empty" /\ result # NotRun) =>
        (result.value <=>
            /\ call.delta.dimensions = <<>>
            /\ call.delta.filters = <<>>
            /\ call.delta.order_by = <<>>
            /\ call.delta.limit = 50)

\* C25 witness: a delta whose only content is a limit other than 50 was
\* reported non-empty.
C25_Witness ==
    /\ call.kind = "is_delta_empty"
    /\ call.delta.dimensions = <<>>
    /\ call.delta.filters = <<>>
    /\ call.delta.order_by = <<>>
    /\ call.delta.limit # 50
    /\ result = [kind |-> "bool", value |-> FALSE]

\* C25 second witness: a delta with metrics only and the default limit was
\* reported empty.
C25_WitnessEmpty ==
    /\ call.kind = "is_delta_empty"
    /\ result = [kind |-> "bool", value |-> TRUE]

(***************************************************************************)
(* Validation, resolution and compilation together (checked under          *)
(* SpecQuery).                                                             *)
(***************************************************************************)
\* C26 (as claimed): an AST that validate accepted and resolve gave a plan
\* for compiles to a statement, without any error.
C26_ValidatedASTCompiles ==
    (verdict = Ok /\ stmt # NotRun) => stmt.kind = "select"

(***************************************************************************)
(* Merged ASTs and validation (checked under SpecMerge).                   *)
(***************************************************************************)
\* C27: when P and D both pass validation, the merged AST passes the metric,
\* dimension, filter and limit checks; it can fail the order-by check only.
C27_MergedFailsOnlyOrderBy ==
    (pc = "merged" /\ validate(previous) = Ok /\ validate(delta) = Ok) =>
        /\ merged.kind = "ast"
        /\ _validate_metrics(merged.metrics) = Ok
        /\ _validate_dimensions(merged.dimensions) = Ok
        /\ _validate_filters(merged.filters) = Ok
        /\ _validate_limit(merged.limit) = Ok
        /\ Reason(validate(merged)) \in {"none", "order_by_not_selected"}

\* C27 witness: P and D pass validation and the merged AST fails it on an
\* order-by kept from P that names a metric D's metrics replaced.
C27_Witness ==
    /\ Merged
    /\ validate(previous) = Ok
    /\ validate(delta) = Ok
    /\ merged.order_by = previous.order_by
    /\ merged.metrics = delta.metrics
    /\ validate(merged) = ASTValidationError("order_by_not_selected")

\* C30: every dimension field and every filter field of P is still a
\* dimension field, respectively a filter field, of merge_ast(P, D).
C30_FieldsNeverShrink ==
    pc = "merged" =>
        /\ merged.kind = "ast"
        /\ FieldsOf(previous.dimensions) \subseteq FieldsOf(merged.dimensions)
        /\ FieldsOf(previous.filters) \subseteq FieldsOf(merged.filters)

\* C30 witness: D filters and groups by fields P does not, and the merged AST
\* still has P's filter field and P's dimension field.
C30_Witness ==
    /\ Merged
    /\ previous.filters # <<>>
    /\ delta.filters # <<>>
    /\ FieldsOf(previous.filters) \cap FieldsOf(delta.filters) = {}
    /\ FieldsOf(previous.filters) \subseteq FieldsOf(merged.filters)
    /\ FieldsOf(delta.filters) \subseteq FieldsOf(merged.filters)

(***************************************************************************)
(* Properties of the request pipeline (checked under SpecPipeline).        *)
(***************************************************************************)
\* The request has run step 5 on a REFINE with a previous AST.
Refined(req) ==
    /\ req.parsed_ast.kind = "ast"
    /\ req.intent = REFINE
    /\ req.previous_ast # NoAST

\* The merge failed, or gave an AST that fails validation.
MergeUnusable(req) ==
    LET m == merge_ast(req.previous_ast, req.parsed_ast)
    IN  m.kind = "error" \/ validate(m) # Ok

\* C22: on a REFINE with a previous AST, if the merge fails or the merged AST
\* fails validation while the parsed delta validates, the request does not
\* fail validation: it goes on with the parsed delta as its final AST and
\* merged = false.  A request that goes on with merged = true has the merged
\* AST as its final AST, and that AST passes validation.
C22_FallbackToParsedDelta ==
    \A r \in Requests :
        LET req == requests[r]
        IN  Refined(req) =>
              /\ (MergeUnusable(req) /\ validate(req.parsed_ast) = Ok) =>
                    /\ req.error_type # "validation_error"
                    /\ req.final_ast = req.parsed_ast
                    /\ req.merged = FALSE
              /\ (req.merged /\ req.error_type # "validation_error") =>
                    /\ req.final_ast
                         = merge_ast(req.previous_ast, req.parsed_ast)
                    /\ validate(req.final_ast) = Ok

\* C22 witness: a request whose merged AST failed validation (the previous
\* ORDER BY names a metric the delta replaced) has succeeded with the parsed
\* delta.
C22_Witness ==
    \E r \in Requests :
        /\ Refined(requests[r])
        /\ MergeUnusable(requests[r])
        /\ requests[r].pc = "returned"
        /\ requests[r].success
        /\ requests[r].final_ast = requests[r].parsed_ast
        /\ ~requests[r].merged

\* C22 witness: a request has succeeded with the merged AST.
C22_WitnessMerged ==
    \E r \in Requests :
        /\ Refined(requests[r])
        /\ requests[r].pc = "returned"
        /\ requests[r].success
        /\ requests[r].merged
        /\ requests[r].final_ast # requests[r].parsed_ast

\* Parsing, validation, join resolution, compilation and execution all
\* succeeded in the request.
AllStepsSucceeded(req) ==
    /\ req.parsed_ast.kind = "ast"
    /\ validate(req.final_ast) = Ok
    /\ req.join_plan.kind = "plan"
    /\ req.statement.kind = "select"
    /\ req.executed

\* Every AST the conversation has stored passes validation.
StoredASTsValid ==
    \A i \in DOMAIN stored : stored[i] # NoAST => validate(stored[i]) = Ok

\* The stored AST is written by request r, at its end, after all its steps
\* succeeded, and the value is its final AST.
WrittenBy(r) ==
    /\ requests[r].pc = "save"
    /\ requests'[r].pc = "returned"
    /\ requests'[r].success
    /\ AllStepsSucceeded(requests[r])
    /\ stored' = Append(stored, requests[r].final_ast)

\* Request r returns a failure in this step.
Fails(r) ==
    /\ requests[r].pc # "returned"
    /\ requests'[r].pc = "returned"
    /\ ~requests'[r].success

\* C28: the stored AST is written only at the end of a request whose parsing,
\* validation, join resolution, compilation and execution all succeeded, and
\* the value written is that request's final validated AST (besides that, only
\* reset_conversation changes the row, by deleting it); a step in which a
\* request fails leaves the stored AST as it was; every stored AST passes
\* validation.
C28_StoredOnlyOnSuccess ==
    /\ []StoredASTsValid
    /\ [][/\ stored' # stored =>
                \/ stored' = Append(stored, NoAST)
                \/ \E r \in Requests : WrittenBy(r)
          /\ \A r \in Requests : Fails(r) => stored' = stored]_vars

\* C28 witness: one request has failed to compile and has written nothing,
\* the other has succeeded and its final AST is the stored one.
C28_Witness ==
    /\ Len(stored) = 2
    /\ \E r \in Requests :
           /\ requests[r].pc = "returned"
           /\ requests[r].success
           /\ Last(stored) = requests[r].final_ast
    /\ \E r \in Requests :
           /\ requests[r].pc = "returned"
           /\ requests[r].error_type = "compilation_error"

\* The AST passes resolution and compilation.
Compiles(a) ==
    \E tables \in IterationOrders(_collect_required_tables(a)) :
        /\ resolve(a, tables).kind = "plan"
        /\ compile(a, resolve(a, tables)).kind = "select"

\* What the conversation can have stored after the request runs alone on a
\* conversation that has `value` stored, the parser and the classifier
\* answering as they did and the execution succeeding.
StoredAfter(value, req) ==
    { LET v == merge_and_validate(value,
                                  IF value = NoAST THEN RESET ELSE req.intent,
                                  req.parsed_ast, retry_ast)
      IN  IF v.validation_error = Ok /\ Compiles(v.final_ast)
          THEN v.final_ast ELSE value : retry_ast \in RetryASTs }

\* What can be stored after the requests order[i], order[i+1], ... run one
\* after another.
RECURSIVE SerialStored(_, _, _)
SerialStored(order, i, value) ==
    IF i > Len(order) THEN {value}
    ELSE UNION { SerialStored(order, i + 1, v) :
                     v \in StoredAfter(value, requests[order[i]]) }

\* All the requests have finished, successfully, and nothing else has written.
AllFinished ==
    /\ \A r \in Requests : requests[r].pc = "returned" /\ requests[r].success
    /\ \A i \in 2..Len(stored) : stored[i] # NoAST

\* C29 (as claimed): after two concurrent requests on the conversation have
\* both finished, the stored AST is one that some serial execution of the two
\* requests would have stored.
C29_ConcurrentEqualsSerial ==
    AllFinished =>
        \E order \in IterationOrders(Requests) :
            Last(stored) \in SerialStored(order, 1, stored[1])
====
